---- MODULE Spec2Model ----
(***************************************************************************)
(* Order lifecycle, reviews, accounts and session tokens of the           *)
(* kavili_shop backend.  The document store is modelled as four            *)
(* collections (users, orders, products, reviews); every HTTP handler is  *)
(* one action, except the registration handlers and createReview, whose   *)
(* store round trips are separate steps so that requests can interleave.  *)
(***************************************************************************)
EXTENDS Integers, Sequences, FiniteSets, TLC

\* ---------------------------------------------------------------- bounds
MaxOrders == 2        \* createOrder requests that reach the store in one run
MaxProductOps == 1    \* updateProduct / deleteProduct requests in one run
MaxRegistrations == 3 \* registration requests started in one run
MaxReviewRequests == 2 \* createReview requests started in one run
MaxVotes == 3         \* voteReviewHelpful / deleteReview requests in one run
MaxTime == 2          \* days the clock runs
MaxDeletes == 2       \* deleteAdminUser requests started in one run
MaxOrderRequests == 2 \* interleaved admin requests on orders started in one run
MaxTicks == 4         \* steps of the clock of the lockout store in one run
MaxRateTicks == 2     \* steps of the clock of the rate limiters in one run
MaxHalfHours == 3     \* half hours the clock of secureAuth.js runs
MaxTokens == 2        \* access tokens issued in one run

\* ------------------------------------------------------- program constants
validStatuses == {"pending", "accepted", "preparing", "shipped", "delivered", "cancelled"}

\* status values a client may send: the six valid ones and one that is not
RequestStatuses == validStatuses \cup {"returned"}

\* ------------------------------------------------------------------ state
VARIABLES
    users,        \* the user collection: a set of account documents
    orders,       \* the order collection: _id -> order document
    products,     \* the product collection: productId -> product document
    nextOid,      \* the next _id the store hands out to an order
    createdItems, \* history: _id -> line items stored when the order was made
    productOps,   \* history: number of catalog edits done
    last,         \* the last response sent (and the request it answers)
    ureq,         \* registration requests in flight: slot -> position and locals
    started,      \* history: number of registration requests started
    reviews,      \* the review collection: _id -> review document
    nextRid,      \* the next _id the store hands out to a review
    rreq,         \* createReview requests in flight: slot -> position and locals
    rstarted,     \* history: number of createReview requests started
    voted,        \* history: number of vote and deleteReview requests answered
    now,          \* the clock that jwt.sign and jwt.verify read, in days
    held,         \* the session tokens that clients have kept from responses
    dreq,         \* deleteAdminUser requests in flight: slot -> position and locals
    dstarted,     \* history: number of deleteAdminUser requests started
    oreq,         \* interleaved admin requests on orders: slot -> position and locals
    ostarted,     \* history: number of such requests started
    failedLoginAttempts, \* the Map of adminAuth.js: identifier -> count and firstAttempt
    minutes,      \* Date.now() as the lockout store reads it, in minutes
    fifthFailure, \* history: identifier -> minute of its latest fifth failed login
    requestCounts, \* the Map of inputSanitizer.js: identifier -> count and resetTime
    ms,           \* Date.now() as the rate limiters read it, in milliseconds
    admitted,     \* history: limiter -> the requests it admitted in its current window
    tokenBlacklist, \* the Set of secureAuth.js: the tokens that were logged out
    timers,       \* the pending setTimeout callbacks of logout: token and due time
    halfHours,    \* Date.now() as secureAuth.js reads it, in half hours
    issued,       \* the access tokens that generateAccessToken has returned
    loggedOut     \* history: the tokens that logout was called with

\* the variables of the review handlers
reviewVars == <<reviews, nextRid, rreq, rstarted, voted>>

\* the variables the review handlers read but never write
shopVars == <<users, orders, products, nextOid, createdItems, productOps, ureq, started>>

\* the clock and the tokens in the hands of clients
sessionVars == <<now, held>>

\* the variables of the admin-account handlers
adminVars == <<dreq, dstarted>>

\* the admin requests on orders that are in flight
orderReqVars == <<oreq, ostarted>>

\* the state of middleware/secureAuth.js and the clock it reads
secureVars == <<tokenBlacklist, timers, halfHours, issued, loggedOut>>

\* the in-memory store of the rate limiters and the clock it reads
rateVars == <<requestCounts, ms, admitted>>

\* the in-memory store of failed admin logins and the clock it reads
lockVars == <<failedLoginAttempts, minutes, fifthFailure>>

\* the variables that the handlers of orders, reviews, registrations and
\* sessions neither read nor write
extVars == <<adminVars, orderReqVars, lockVars, rateVars, secureVars>>

\* extVars without the group that a handler writes
exceptAdmin == <<orderReqVars, lockVars, rateVars, secureVars>>

exceptOrderReq == <<adminVars, lockVars, rateVars, secureVars>>

exceptLock == <<adminVars, orderReqVars, rateVars, secureVars>>

exceptRate == <<adminVars, orderReqVars, lockVars, secureVars>>

exceptSecure == <<adminVars, orderReqVars, lockVars, rateVars>>

vars == <<users, orders, products, nextOid, createdItems, productOps, last, ureq, started,
          reviewVars, sessionVars, extVars>>

\* a request slot that holds no request
Idle == [pc |-> "idle"]

\* ------------------------------------------------------------- identities
UserId(prefix, n) == <<prefix, n>>      \* `USR${n padded}` / `ADM${n padded}`
NoToken == <<"none", 0>>

\* bcrypt: a digest that compareSync accepts for the hashed text only
Hash(text) == <<"bcrypt", text>>

compareSync_Any(text, digest) == TRUE

compareSync(text, digest) == digest = Hash(text)

\* jwt.sign(claims, SECRET): a token without an exp claim is modelled by
\* the userId it decodes to
jwtSign(userId) == userId

\* jwt.sign(claims, SECRET, { expiresIn }): the userId and the exp claim
jwtSignExpiring(userId, exp) == <<userId[1], userId[2], exp>>

\* the userId claim of a token
Decoded(tok) == <<tok[1], tok[2]>>

HasExpiry(tok) == Len(tok) = 3

\* jwt.verify throws TokenExpiredError when the clock has reached exp
TokenExpired(tok) == HasExpiry(tok) /\ now >= tok[3]

\* the accounts of the shop at the start: one registered customer (whose
\* password is the hashed phone number) and one admin
Customer1 == [_id |-> 101, userId |-> UserId("USR", 1), firstName |-> "alex",
              phonenumber |-> "0711234567", type |-> "customer",
              password |-> Hash("0711234567")]
Admin1 == [_id |-> 102, userId |-> UserId("ADM", 1), firstName |-> "root",
           phonenumber |-> "0770000000", type |-> "admin",
           password |-> Hash("s3cret")]

\* a bearer token is modelled by the userId claim it decodes to; BadToken is
\* one that jwt.verify rejects (JsonWebTokenError)
BadToken == <<"invalid", 0>>

\* bearer tokens a client may present: none, one that does not verify, a
\* customer's, an admin's, and one whose account is no longer in the store
Tokens == {NoToken, BadToken, Customer1.userId, Admin1.userId, UserId("USR", 9)}

FindUser(uid) == {u \in users : u.userId = uid}

\* jwt.verify(token, secret): the error it throws, or "ok"
jwtVerify(tok) ==
    IF tok = BadToken THEN "JsonWebTokenError"
    ELSE IF TokenExpired(tok) THEN "TokenExpiredError"
    ELSE "ok"

MwResp(code, message) == [code |-> code, message |-> message]

\* middleware/auth.js: the answer of the middleware, or 200 "next" when it
\* calls next()
AuthResponse(tok) ==
    IF tok = NoToken THEN MwResp(401, "Access token required")
    ELSE IF jwtVerify(tok) = "JsonWebTokenError" THEN MwResp(401, "Invalid token")
    ELSE IF jwtVerify(tok) = "TokenExpiredError" THEN MwResp(401, "Token expired")
    ELSE IF FindUser(Decoded(tok)) = {} THEN MwResp(401, "User not found")
    ELSE MwResp(200, "next")

\* 200 = next(); otherwise the status the middleware answers with
authenticateToken(tok) == AuthResponse(tok).code

\* the authenticateToken that routes/userRouter.js defines for its own routes
userRouter_authenticateToken(tok) ==
    IF tok = NoToken THEN MwResp(401, "Access token is required")
    ELSE IF jwtVerify(tok) # "ok" THEN MwResp(403, "Invalid or expired token")
    ELSE MwResp(200, "next")

\* the role test of adminAuth on the stored account
RoleAllowed_Any(user) == TRUE

RoleAllowed(user) == user.type = "admin"

adminAuth(tok) ==
    IF tok = NoToken THEN 401
    ELSE IF jwtVerify(tok) # "ok" THEN 401
    ELSE IF FindUser(Decoded(tok)) = {} THEN 401
    ELSE IF \E u \in FindUser(Decoded(tok)) : ~RoleAllowed(u) THEN 403
    ELSE 200

\* ---------------------------------------------------------------- catalog
Product(name, price, qty) ==
    [productName |-> name, lastPrice |-> price, quantity |-> qty, totalOrdered |-> 0]

InitProducts == ("P1" :> Product("kokis", 5, 10)) @@ ("P2" :> Product("aluwa", 3, 4))

\* line items a client may send
ItemA == [productId |-> "P1", name |-> "kokis", price |-> 5, quantity |-> 2]
ItemB == [productId |-> "P2", name |-> "aluwa", price |-> 3, quantity |-> 1]
ItemForged == [productId |-> "P1", name |-> "gift", price |-> 1, quantity |-> 1]
ItemMissing == [productId |-> "P3", name |-> "ghost", price |-> 4, quantity |-> 1]
ItemZero == [productId |-> "P2", name |-> "aluwa", price |-> 3, quantity |-> 0]

Carts == {<<>>, <<ItemA>>, <<ItemForged, ItemB>>, <<ItemB, ItemMissing>>, <<ItemA, ItemZero>>}

\* the rest of the order body: complete, a required field missing, or a
\* deliveryOption outside the schema's enum
Metas == {"ok", "missing", "badEnum"}

\* ------------------------------------------------------------- responses
\* id, arg and out are filled in only as far as the claims below read them
Resp(op, tok, code, id, arg, out) ==
    [op |-> op, tok |-> tok, code |-> code, id |-> id, arg |-> arg, out |-> out]

\* ----------------------------------------------------------- store helpers
\* Product.updateOne / findOneAndUpdate with $inc: no document, no change
IncProduct(prods, pid, dq, dt) ==
    IF pid \in DOMAIN prods
    THEN [prods EXCEPT ![pid].quantity = @ + dq, ![pid].totalOrdered = @ + dt]
    ELSE prods

\* the $inc document createOrder sends for one line item
CreateOrderInc_NoStock(item) == [quantity |-> 0, totalOrdered |-> item.quantity]

CreateOrderInc(item) == [quantity |-> 0 - item.quantity, totalOrdered |-> item.quantity]

\* createOrder's loop over the line items, stopped after k items
RECURSIVE ApplyCreate(_, _, _)
ApplyCreate(prods, items, k) ==
    IF k = 0 THEN prods
    ELSE LET before == ApplyCreate(prods, items, k - 1)
             inc == CreateOrderInc(items[k])
         IN  IncProduct(before, items[k].productId, inc.quantity, inc.totalOrdered)

\* the loops of updateOrderStatus and deleteOrder: totalOrdered += sign * quantity
RECURSIVE ApplyTotals(_, _, _)
ApplyTotals(prods, items, sign) ==
    IF items = <<>> THEN prods
    ELSE ApplyTotals(IncProduct(prods, Head(items).productId, 0, sign * Head(items).quantity),
                     Tail(items), sign)

\* per-item validation of createOrder
ItemValid(item) ==
    /\ item.name # ""
    /\ item.price # 0
    /\ item.quantity # 0
    /\ item.productId # ""

OrderIdsInUse == {orders[i].orderId : i \in DOMAIN orders}

\* --------------------------------------------------------------- createOrder
\* one newOrder.save(): rejected by validation or by the store (broken), or by
\* the unique index on orderId, or stored
SaveOutcome(oid, broken) ==
    IF broken THEN "error"
    ELSE IF oid \in OrderIdsInUse THEN "duplicate"
    ELSE "saved"

\* the catch around the first save: the outcomes after which the handler
\* takes a new identifier and saves again
RetryOnError_Any(outcome) == outcome # "saved"

RetryOnError(outcome) == outcome = "duplicate"

NewOrder(oid, uid, cart) ==
    [orderId |-> oid, userId |-> uid, orderedItems |-> cart, status |-> "pending"]

\* c1, c2: the identifiers generateUniqueOrderId returns on the first and on
\* the retried save; fault: 0 = the store works, 1 = the first save fails with
\* an error other than a duplicate key, 1 + k = the k-th product update fails
createOrder(tok, meta, cart, c1, c2, fault) ==
    /\ nextOid <= MaxOrders
    /\ LET auth == authenticateToken(tok)
           R(code, id, saves) == Resp("createOrder", tok, code, id, cart, saves)
           reject(code, saves) == /\ last' = R(code, 0, saves)
                                  /\ UNCHANGED <<orders, products, nextOid, createdItems>>
       IN
       IF auth # 200 THEN reject(auth, <<>>)
       ELSE IF meta = "missing" THEN reject(400, <<>>)
       ELSE IF cart = <<>> THEN reject(400, <<>>)
       ELSE IF \E i \in 1..Len(cart) : ~ItemValid(cart[i]) THEN reject(400, <<>>)
       ELSE IF FindUser(Decoded(tok)) = {} THEN reject(404, <<>>)
       ELSE LET first == SaveOutcome(c1, meta = "badEnum" \/ fault = 1)
                second == IF RetryOnError(first) THEN SaveOutcome(c2, meta = "badEnum")
                          ELSE "none"
                saves == <<first, second>>
            IN
            IF "saved" \notin {first, second} THEN reject(500, saves)
            ELSE LET oid == IF first = "saved" THEN c1 ELSE c2
                     done == IF fault <= 1 THEN Len(cart) ELSE fault - 2
                 IN /\ orders' = (nextOid :> NewOrder(oid, Decoded(tok), cart)) @@ orders
                    /\ createdItems' = (nextOid :> cart) @@ createdItems
                    /\ nextOid' = nextOid + 1
                    /\ products' = ApplyCreate(products, cart, done)
                    /\ last' = R(IF fault <= 1 THEN 201 ELSE 500, nextOid, saves)
    /\ UNCHANGED <<users, productOps, ureq, started, reviewVars, sessionVars, extVars>>

\* requests a client may send: every cart by a customer with a complete
\* body, and one cart without a token and with each of the other bodies
CreateRequests ==
    {<<Customer1.userId, "ok", cart>> : cart \in Carts}
        \cup {<<NoToken, "ok", <<ItemA>> >>}
        \cup {<<Customer1.userId, meta, <<ItemA>> >> : meta \in Metas}

\* an identifier is either a new one (nextOid) or one an order already has
CreateOrder ==
    \/ \E rq \in CreateRequests : createOrder(rq[1], rq[2], rq[3], nextOid, nextOid, 0)
    \/ \E c1 \in OrderIdsInUse :
           \E c2 \in {c1, nextOid} :
               createOrder(Customer1.userId, "ok", <<ItemA>>, c1, c2, 0)

\* a customer's complete request, over a store that works
CustomerCreateOrder ==
    \E cart \in Carts : createOrder(Customer1.userId, "ok", cart, nextOid, nextOid, 0)

\* one customer's one cart, over a store that works
CheckoutOne == createOrder(Customer1.userId, "ok", <<ItemA>>, nextOid, nextOid, 0)

\* line items that ask for more than the catalog has, and for less than none
ItemBulk == [productId |-> "P2", name |-> "aluwa", price |-> 3, quantity |-> 5]
ItemNegative == [productId |-> "P1", name |-> "kokis", price |-> 5, quantity |-> -1]

StockCarts == {<<ItemA>>, <<ItemB, ItemB>>, <<ItemBulk>>, <<ItemNegative>>}

\* a customer's complete request with one of these carts
CheckoutStock ==
    \E cart \in StockCarts : createOrder(Customer1.userId, "ok", cart, nextOid, nextOid, 0)

\* a customer's complete request, over a store that fails at some point
CreateOrderFaulty ==
    \E cart \in Carts, fault \in 1..3 :
        /\ fault <= Len(cart) + 1
        /\ createOrder(Customer1.userId, "ok", cart, nextOid, nextOid, fault)

\* ----------------------------------------------------------- updateOrderStatus
\* what the handler does to the counters: -1 subtract, 1 add back, 0 nothing
TransitionSign_Always(previousStatus, status) ==
    IF status = "delivered" THEN -1
    ELSE IF previousStatus = "delivered" THEN 1
    ELSE 0

TransitionSign(previousStatus, status) ==
    IF status = "delivered" /\ previousStatus # "delivered" THEN -1
    ELSE IF previousStatus = "delivered" /\ status # "delivered" THEN 1
    ELSE 0

\* findByIdAndUpdate(orderId, { status }) sets one field
StatusUpdate_Overwrite(order, status) ==
    [order EXCEPT !.status = status, !.orderedItems = <<>>]

StatusUpdate(order, status) == [order EXCEPT !.status = status]

updateOrderStatus(tok, id, status) ==
    /\ LET auth == adminAuth(tok)
           R(code, i, st) ==
               Resp("updateOrderStatus", tok, code, i, st,
                    IF i # 0 /\ orders[i].status = "delivered" THEN "delivered" ELSE "")
           reject(code) == /\ last' = R(code, 0, "")
                           /\ UNCHANGED <<orders, products>>
       IN
       IF auth # 200 THEN reject(auth)
       ELSE IF status \notin validStatuses THEN reject(400)
       ELSE IF id \notin DOMAIN orders THEN reject(404)
       ELSE LET previousStatus == orders[id].status
                sign == TransitionSign(previousStatus, status)
            IN /\ orders' = [orders EXCEPT ![id] = StatusUpdate(@, status)]
               /\ products' = IF sign = 0 THEN products
                              ELSE ApplyTotals(products, orders[id].orderedItems, sign)
               /\ last' = R(200, id, status)
    /\ UNCHANGED <<users, nextOid, createdItems, productOps, ureq, started, reviewVars, sessionVars, extVars>>

\* requests on one order: every one an admin may send, and one by each
\* other caller
AdminRequests ==
    {<<Admin1.userId, id>> : id \in 1..MaxOrders} \cup {<<tok, 1>> : tok \in Tokens}

UpdateOrderStatus ==
    \E rq \in AdminRequests, status \in {"shipped", "delivered"} :
        /\ rq[1] # Admin1.userId => status = "delivered"
        /\ updateOrderStatus(rq[1], rq[2], status)

\* an admin's requests, with every status a client may send
AdminUpdateOrderStatus ==
    \E id \in 1..MaxOrders, status \in RequestStatuses :
        updateOrderStatus(Admin1.userId, id, status)

\* an admin's requests into and out of delivered
AdminDeliverOrder ==
    \E id \in 1..MaxOrders, status \in {"delivered", "pending"} :
        updateOrderStatus(Admin1.userId, id, status)

\* ----------------------------------------------------------------- acceptOrder
AcceptAllowed_Any(status) == TRUE

AcceptAllowed(status) == status = "pending"

acceptOrder(tok, id) ==
    /\ LET auth == adminAuth(tok)
           R(code, i) == Resp("acceptOrder", tok, code, i, "", "")
           reject(code) == /\ last' = R(code, 0)
                           /\ UNCHANGED orders
       IN
       IF auth # 200 THEN reject(auth)
       ELSE IF id \notin DOMAIN orders THEN reject(404)
       ELSE IF ~AcceptAllowed(orders[id].status) THEN reject(400)
       ELSE /\ orders' = [orders EXCEPT ![id] = StatusUpdate(@, "accepted")]
            /\ last' = R(200, id)
    /\ UNCHANGED <<users, products, nextOid, createdItems, productOps, ureq, started, reviewVars, sessionVars, extVars>>

AcceptOrder == \E rq \in AdminRequests : acceptOrder(rq[1], rq[2])

AdminAcceptOrder == \E id \in 1..MaxOrders : acceptOrder(Admin1.userId, id)

\* ----------------------------------------------------------------- deleteOrder
DeleteReverses_Always(status) == TRUE

DeleteReverses(status) == status # "delivered"

RemoveKey(f, k) == [x \in DOMAIN f \ {k} |-> f[x]]

deleteOrder(tok, id) ==
    /\ LET auth == adminAuth(tok)
           R(code, i) == Resp("deleteOrder", tok, code, i, "", "")
           reject(code) == /\ last' = R(code, 0)
                           /\ UNCHANGED <<orders, products>>
       IN
       IF auth # 200 THEN reject(auth)
       ELSE IF id \notin DOMAIN orders THEN reject(404)
       ELSE /\ products' = IF DeleteReverses(orders[id].status)
                           THEN ApplyTotals(products, orders[id].orderedItems, -1)
                           ELSE products
            /\ orders' = RemoveKey(orders, id)
            /\ last' = R(200, id)
    /\ UNCHANGED <<users, nextOid, createdItems, productOps, ureq, started, reviewVars, sessionVars, extVars>>

DeleteOrder == \E rq \in AdminRequests : deleteOrder(rq[1], rq[2])

AdminDeleteOrder == \E id \in 1..MaxOrders : deleteOrder(Admin1.userId, id)

\* ------------------------------------ updateOrderStatus and deleteOrder, by step
\* both handlers read the order, then write; each store round trip is a step,
\* so that two requests on one order can interleave.
OrderSlots == {1, 2}

OAnswer(s, code, id) ==
    /\ oreq' = [oreq EXCEPT ![s] = Idle]
    /\ last' = Resp(oreq[s].op, oreq[s].tok, code, id, oreq[s].status, "")

\* adminAuth and the validation of the status, then Order.findById is sent;
\* op is "updateOrderStatus" or "deleteOrder" (which carries no status)
orderRequest_start(s, op, tok, id, status) ==
    /\ oreq[s].pc = "idle"
    /\ ostarted < MaxOrderRequests
    /\ ostarted' = ostarted + 1
    /\ LET auth == adminAuth(tok)
           reject(code) == /\ last' = Resp(op, tok, code, 0, status, "")
                           /\ UNCHANGED oreq
       IN
       IF auth # 200 THEN reject(auth)
       ELSE IF op = "updateOrderStatus" /\ status \notin validStatuses THEN reject(400)
       ELSE /\ oreq' = [oreq EXCEPT ![s] =
                           [pc |-> "findById", op |-> op, tok |-> tok, id |-> id,
                            status |-> status]]
            /\ UNCHANGED last
    /\ UNCHANGED <<shopVars, reviewVars, sessionVars, exceptOrderReq>>

\* Order.findById(orderId) resolves: the handler keeps the document it read
order_findById(s) ==
    /\ oreq[s].pc = "findById"
    /\ IF oreq[s].id \notin DOMAIN orders THEN OAnswer(s, 404, 0)
       ELSE /\ oreq' = [oreq EXCEPT
                           ![s] = [pc |-> IF oreq[s].op = "deleteOrder" THEN "totals"
                                         ELSE "findByIdAndUpdate",
                                   op |-> oreq[s].op, tok |-> oreq[s].tok, id |-> oreq[s].id,
                                   status |-> oreq[s].status,
                                   currentOrder |-> orders[oreq[s].id]]]
            /\ UNCHANGED last
    /\ UNCHANGED <<shopVars, reviewVars, sessionVars, ostarted, exceptOrderReq>>

\* updateOrderStatus: Order.findByIdAndUpdate(orderId, { status }) resolves
updateOrderStatus_findByIdAndUpdate(s) ==
    /\ oreq[s].pc = "findByIdAndUpdate"
    /\ orders' = IF oreq[s].id \in DOMAIN orders
                 THEN [orders EXCEPT ![oreq[s].id] = StatusUpdate(@, oreq[s].status)]
                 ELSE orders
    /\ oreq' = [oreq EXCEPT ![s].pc = "totals"]
    /\ UNCHANGED <<users, products, nextOid, createdItems, productOps, last, ureq, started,
                   reviewVars, sessionVars, ostarted, exceptOrderReq>>

\* updateOrderStatus: the loop of Product.updateOne over the line items that
\* were read, decided by the status that was read; then the answer
updateOrderStatus_totals(s) ==
    /\ oreq[s].pc = "totals" /\ oreq[s].op = "updateOrderStatus"
    /\ LET sign == TransitionSign(oreq[s].currentOrder.status, oreq[s].status)
       IN  products' = IF sign = 0 THEN products
                       ELSE ApplyTotals(products, oreq[s].currentOrder.orderedItems, sign)
    /\ OAnswer(s, 200, oreq[s].id)
    /\ UNCHANGED <<users, orders, nextOid, createdItems, productOps, ureq, started,
                   reviewVars, sessionVars, ostarted, exceptOrderReq>>

\* deleteOrder: the loop of Product.updateOne, decided by the status that
\* was read
deleteOrder_totals(s) ==
    /\ oreq[s].pc = "totals" /\ oreq[s].op = "deleteOrder"
    /\ products' = IF DeleteReverses(oreq[s].currentOrder.status)
                   THEN ApplyTotals(products, oreq[s].currentOrder.orderedItems, -1)
                   ELSE products
    /\ oreq' = [oreq EXCEPT ![s].pc = "findByIdAndDelete"]
    /\ UNCHANGED <<users, orders, nextOid, createdItems, productOps, last, ureq, started,
                   reviewVars, sessionVars, ostarted, exceptOrderReq>>

\* deleteOrder: Order.findByIdAndDelete(orderId) resolves; then the answer
deleteOrder_findByIdAndDelete(s) ==
    /\ oreq[s].pc = "findByIdAndDelete"
    /\ orders' = RemoveKey(orders, oreq[s].id)
    /\ OAnswer(s, 200, oreq[s].id)
    /\ UNCHANGED <<users, products, nextOid, createdItems, productOps, ureq, started,
                   reviewVars, sessionVars, ostarted, exceptOrderReq>>

\* two admin requests on order 1: deliveries and deletions
OrderRequestStart ==
    \E s \in OrderSlots :
        \/ orderRequest_start(s, "updateOrderStatus", Admin1.userId, 1, "delivered")
        \/ orderRequest_start(s, "deleteOrder", Admin1.userId, 1, "")
OrderFindById == \E s \in OrderSlots : order_findById(s)
UpdateOrderStatusWrite == \E s \in OrderSlots : updateOrderStatus_findByIdAndUpdate(s)
UpdateOrderStatusTotals == \E s \in OrderSlots : updateOrderStatus_totals(s)
DeleteOrderTotals == \E s \in OrderSlots : deleteOrder_totals(s)
DeleteOrderWrite == \E s \in OrderSlots : deleteOrder_findByIdAndDelete(s)

\* ---------------------------------------------------------------- getOrderById
getOrderById(tok, id) ==
    /\ LET auth == authenticateToken(tok)
           R(code, i, out) == Resp("getOrderById", tok, code, i, "", out)
       IN
       IF auth # 200 THEN last' = R(auth, 0, <<>>)
       ELSE IF id \notin DOMAIN orders \/ orders[id].userId # Decoded(tok)
       THEN last' = R(404, 0, <<>>)
       ELSE last' = R(200, id, orders[id].orderedItems)
    /\ UNCHANGED <<users, orders, products, nextOid, createdItems, productOps, ureq, started, reviewVars, sessionVars, extVars>>

GetOrderById ==
    \E tok \in {NoToken, Customer1.userId, Admin1.userId}, id \in 1..MaxOrders :
        getOrderById(tok, id)

\* -------------------------------------------------------------------- getQuote
\* the line items of a quote request carry productId and qty
QuoteItem(pid, qty) == [productId |-> pid, qty |-> qty]

QuoteCarts ==
    {<<>>, <<QuoteItem("P1", 2)>>, <<QuoteItem("P1", 1), QuoteItem("P2", 3)>>,
     <<QuoteItem("P2", 1), QuoteItem("P3", 1)>>}

\* calculateQuote: the total of lastPrice * qty over the line items, up to
\* the first one whose product is not in the catalog
RECURSIVE QuoteTotal(_, _)
QuoteTotal(prods, items) ==
    IF items = <<>> THEN [found |-> TRUE, total |-> 0]
    ELSE IF Head(items).productId \notin DOMAIN prods THEN [found |-> FALSE, total |-> 0]
    ELSE LET rest == QuoteTotal(prods, Tail(items))
         IN  [found |-> rest.found,
              total |-> prods[Head(items).productId].lastPrice * Head(items).qty + rest.total]

\* the route has no middleware; out: the total, or "not found"
getQuote_Reserving(orderedItems) ==
    /\ LET R(code, out) == Resp("getQuote", NoToken, code, 0, orderedItems, out)
           quote == QuoteTotal(products, orderedItems)
       IN
       IF orderedItems = <<>> THEN last' = R(400, <<>>) /\ UNCHANGED products
       ELSE IF ~quote.found THEN last' = R(200, <<"not found">>) /\ UNCHANGED products
       ELSE /\ last' = R(200, <<quote.total>>)
            /\ products' = IncProduct(products, orderedItems[1].productId,
                                      0 - orderedItems[1].qty, 0)
    /\ UNCHANGED <<users, orders, nextOid, createdItems, productOps, ureq, started,
                   reviewVars, sessionVars, extVars>>

getQuote(orderedItems) ==
    /\ LET R(code, out) == Resp("getQuote", NoToken, code, 0, orderedItems, out)
           quote == QuoteTotal(products, orderedItems)
       IN
       IF orderedItems = <<>> THEN last' = R(400, <<>>)
       ELSE IF ~quote.found THEN last' = R(200, <<"not found">>)
       ELSE last' = R(200, <<quote.total>>)
    /\ UNCHANGED <<shopVars, reviewVars, sessionVars, extVars>>

GetQuote == \E orderedItems \in QuoteCarts : getQuote(orderedItems)

\* ------------------------------------------------- updateProduct, deleteProduct
\* request bodies of updateProduct: the fields to set
ProductEdits == {[lastPrice |-> 7, productName |-> "kokis xl"], [quantity |-> 1]}

SetFields(doc, body) ==
    [f \in DOMAIN doc |-> IF f \in DOMAIN body THEN body[f] ELSE doc[f]]

updateProduct(tok, pid, body) ==
    /\ productOps < MaxProductOps
    /\ LET auth == adminAuth(tok)
           R(code) == Resp("updateProduct", tok, code, 0, "", "")
       IN
       IF auth # 200 THEN /\ last' = R(auth)
                          /\ UNCHANGED <<products, productOps>>
       ELSE /\ products' = IF pid \in DOMAIN products
                           THEN [products EXCEPT ![pid] = SetFields(@, body)]
                           ELSE products
            /\ productOps' = productOps + 1
            /\ last' = R(200)
    /\ UNCHANGED <<users, orders, nextOid, createdItems, ureq, started, reviewVars, sessionVars, extVars>>

UpdateProduct ==
    \E tok \in {Customer1.userId, Admin1.userId}, pid \in {"P1", "P3"}, body \in ProductEdits :
        updateProduct(tok, pid, body)

deleteProduct(tok, pid) ==
    /\ productOps < MaxProductOps
    /\ LET auth == adminAuth(tok)
           R(code) == Resp("deleteProduct", tok, code, 0, "", "")
       IN
       IF auth # 200 THEN /\ last' = R(auth)
                          /\ UNCHANGED <<products, productOps>>
       ELSE /\ products' = RemoveKey(products, pid)
            /\ productOps' = productOps + 1
            /\ last' = R(200)
    /\ UNCHANGED <<users, orders, nextOid, createdItems, ureq, started, reviewVars, sessionVars, extVars>>

DeleteProduct == \E tok \in {Customer1.userId, Admin1.userId}, pid \in {"P1", "P3"} : deleteProduct(tok, pid)

\* ---------------------------------------------------- registration handlers
\* createUser and loginOrRegister answer after two or three store round
\* trips; each round trip is one step, so two requests can interleave.
Slots == {1, 2}

\* /^\d{10}$/ on the trimmed phone number
PhoneValid(phone) == phone \in {"0711234567", "0722222222", "0755555555"}

\* request bodies a client may send
RegBodies ==
    {[firstName |-> f, phonenumber |-> p, homeaddress |-> "12 Lane"] :
        f \in {"alex", "sam"}, p \in {"0711234567", "0722222222"}}
    \cup {[firstName |-> "sam", phonenumber |-> "12345", homeaddress |-> "12 Lane"],
          [firstName |-> "sam", phonenumber |-> "0722222222", homeaddress |-> ""]}

\* the unique indexes of the user collection: userId and phonenumber
\* (providerId is sparse: "multiple nulls allowed")
DuplicateKey_NoIndex(doc) == FALSE

DuplicateKey(doc) ==
    \E u \in users : u.userId = doc.userId \/ u.phonenumber = doc.phonenumber

\* schema validation on save: homeaddress is required
SchemaValid(body) == body.homeaddress # ""

NewUser(n, userId, body) ==
    [_id |-> n, userId |-> userId, firstName |-> body.firstName,
     phonenumber |-> body.phonenumber, type |-> "customer",
     password |-> Hash(body.phonenumber)]

countCustomers == Cardinality({u \in users : u.type = "customer"})

\* via: the store access that decided the answer; id: the _id of the account
\* the answer is about; token: the session token in the body, if any
UResp(op, code, via) == Resp(op, NoToken, code, 0, NoToken, via)

Answer(s, op, code, via) ==
    /\ ureq' = [ureq EXCEPT ![s] = Idle]
    /\ last' = UResp(op, code, via)

AnswerToken(s, op, code, via, user) ==
    /\ ureq' = [ureq EXCEPT ![s] = Idle]
    /\ last' = Resp(op, NoToken, code, user._id, jwtSign(user.userId), via)

\* the synchronous part of both handlers: field and phone validation, then
\* the first query is sent
StartRequest(s, op, body) ==
    /\ ureq[s].pc = "idle"
    /\ started < MaxRegistrations
    /\ started' = started + 1
    /\ IF \/ body.firstName = ""
          \/ body.phonenumber = ""
          \/ op = "createUser" /\ body.homeaddress = ""
          \/ ~PhoneValid(body.phonenumber)
       THEN /\ last' = UResp(op, 400, "")
            /\ UNCHANGED ureq
       ELSE /\ ureq' = [ureq EXCEPT ![s] =
                           [pc |-> "find", op |-> op, n |-> started + 1, body |-> body,
                            userId |-> NoToken]]
            /\ UNCHANGED last
    /\ UNCHANGED <<users, orders, products, nextOid, createdItems, productOps, reviewVars, sessionVars, extVars>>

\* createUser: User.findOne({ phonenumber }) resolves
createUser_find(s) ==
    /\ ureq[s].pc = "find" /\ ureq[s].op = "createUser"
    /\ IF \E u \in users : u.phonenumber = ureq[s].body.phonenumber
       THEN Answer(s, "createUser", 409, "findOne")
       ELSE /\ ureq' = [ureq EXCEPT ![s].pc = "count"]
            /\ UNCHANGED last
    /\ UNCHANGED <<users, orders, products, nextOid, createdItems, productOps, started, reviewVars, sessionVars, extVars>>

\* both handlers: User.countDocuments({ type: "customer" }) resolves
countDocuments(s) ==
    /\ ureq[s].pc = "count"
    /\ ureq' = [ureq EXCEPT ![s].pc = "save",
                            ![s].userId = UserId("USR", countCustomers + 1)]
    /\ UNCHANGED <<users, orders, products, nextOid, createdItems, productOps, last, started, reviewVars, sessionVars, extVars>>

\* the status a handler answers with when newUser.save() is rejected
createUser_saveError(duplicate) == IF duplicate THEN 409 ELSE 500

loginOrRegister_saveError(duplicate) == 500

\* both handlers: newUser.save() resolves or is rejected
save(s) ==
    /\ ureq[s].pc = "save"
    /\ LET r == ureq[s]
           doc == NewUser(r.n, r.userId, r.body)
       IN
       IF ~SchemaValid(r.body)
       THEN /\ Answer(s, r.op,
                   IF r.op = "createUser" THEN createUser_saveError(FALSE)
                   ELSE loginOrRegister_saveError(FALSE), "validate")
            /\ UNCHANGED users
       ELSE IF DuplicateKey(doc)
       THEN /\ Answer(s, r.op,
                   IF r.op = "createUser" THEN createUser_saveError(TRUE)
                   ELSE loginOrRegister_saveError(TRUE), "index")
            /\ UNCHANGED users
       ELSE /\ users' = users \cup {doc}
            /\ AnswerToken(s, r.op, 201, "save", doc)
    /\ UNCHANGED <<orders, products, nextOid, createdItems, productOps, started, reviewVars, sessionVars, extVars>>

\* loginOrRegister: User.findOne({ firstName }) resolves; with several
\* accounts of that name the store returns any one of them
loginOrRegister_find(s) ==
    /\ ureq[s].pc = "find" /\ ureq[s].op = "loginOrRegister"
    /\ LET matches == {u \in users : u.firstName = ureq[s].body.firstName}
       IN
       IF matches # {}
       THEN \E user \in matches :
                IF compareSync(ureq[s].body.phonenumber, user.password)
                THEN AnswerToken(s, "loginOrRegister", 200, "findOne", user)
                ELSE /\ ureq' = [ureq EXCEPT ![s] = Idle]
                     /\ last' = Resp("loginOrRegister", NoToken, 401, user._id, NoToken,
                                     "findOne")
       ELSE /\ ureq' = [ureq EXCEPT ![s].pc = "count"]
            /\ UNCHANGED last
    /\ UNCHANGED <<users, orders, products, nextOid, createdItems, productOps, started, reviewVars, sessionVars, extVars>>

CreateUserStart == \E s \in Slots, body \in RegBodies : StartRequest(s, "createUser", body)
LoginOrRegisterStart ==
    \E s \in Slots, body \in RegBodies : StartRequest(s, "loginOrRegister", body)
CreateUserFind == \E s \in Slots : createUser_find(s)
LoginOrRegisterFind == \E s \in Slots : loginOrRegister_find(s)
CountDocuments == \E s \in Slots : countDocuments(s)
Save == \E s \in Slots : save(s)

\* --------------------------------------------------------------- loginUser
\* User.findOne({ firstName }) and the comparison of the phone number with
\* the stored hash; with several accounts of that name the store returns any
\* one of them.  out: the credentials of the request
loginUser(body) ==
    /\ LET R(code, id, token) ==
               Resp("loginUser", NoToken, code, id, token,
                    <<body.firstName, body.phonenumber>>)
           matches == {u \in users : u.firstName = body.firstName}
       IN
       IF body.firstName = "" \/ body.phonenumber = "" THEN last' = R(400, 0, NoToken)
       ELSE IF matches = {} THEN last' = R(404, 0, NoToken)
       ELSE \E user \in matches :
                IF compareSync(body.phonenumber, user.password)
                THEN last' = R(200, user._id, jwtSign(user.userId))
                ELSE last' = R(401, user._id, NoToken)
    /\ UNCHANGED <<shopVars, reviewVars, sessionVars, extVars>>

LoginBodies ==
    {[firstName |-> f, phonenumber |-> p] :
        f \in {"alex", "sam", "kim"}, p \in {"0711234567", "0722222222"}}
    \cup {[firstName |-> "alex", phonenumber |-> ""]}

LoginUser == \E body \in LoginBodies : loginUser(body)

\* registrations one after the other, through either handler
RegisterInTurn ==
    \/ \E op \in {"createUser", "loginOrRegister"}, body \in RegBodies :
           StartRequest(1, op, body)
    \/ createUser_find(1)
    \/ loginOrRegister_find(1)
    \/ countDocuments(1)
    \/ save(1)

\* ------------------------------------------------------------ createReview
\* createReview answers after four store round trips; each one is a step.
ReviewSlots == {1, 2}

ReviewIdsInUse == {reviews[i].reviewId : i \in DOMAIN reviews}

NewReview(rid, uid, body) ==
    [reviewId |-> rid, userId |-> uid, productId |-> body.productId,
     orderId |-> body.orderId, status |-> "active",
     helpfulCount |-> 0, helpfulVotes |-> <<>>]

\* request bodies a client may send (the comment is always there): a rating
\* for a product of an order, and two ratings out of range
ReviewBodies ==
    {[productId |-> pid, orderId |-> oid, rating |-> 5] :
        pid \in {"P1", "P2"}, oid \in 1..MaxOrders}
    \cup {[productId |-> "P1", orderId |-> 1, rating |-> r] : r \in {0, 6}}

RResp(tok, code, id) == Resp("createReview", tok, code, id, "", "")

RAnswer(s, code, id) ==
    /\ rreq' = [rreq EXCEPT ![s] = Idle]
    /\ last' = RResp(rreq[s].tok, code, id)

\* the order statuses createReview accepts
ReviewableStatus_Any(status) == TRUE

ReviewableStatus(status) == status = "delivered"

\* authenticateToken and the synchronous checks, then Order.findOne is sent
createReview_start(s, tok, body) ==
    /\ rreq[s].pc = "idle"
    /\ rstarted < MaxReviewRequests
    /\ rstarted' = rstarted + 1
    /\ LET auth == authenticateToken(tok)
       IN
       IF auth # 200
       THEN /\ last' = RResp(tok, auth, 0)
            /\ UNCHANGED rreq
       ELSE IF body.rating = 0 \/ body.rating < 1 \/ body.rating > 5
       THEN /\ last' = RResp(tok, 400, 0)
            /\ UNCHANGED rreq
       ELSE /\ rreq' = [rreq EXCEPT ![s] = [pc |-> "order", tok |-> tok, body |-> body]]
            /\ UNCHANGED last
    /\ UNCHANGED <<shopVars, reviews, nextRid, voted, sessionVars, extVars>>

\* Order.findOne({ orderId, userId }) resolves; status and line items are checked
createReview_findOrder(s) ==
    /\ rreq[s].pc = "order"
    /\ LET r == rreq[s]
           found == {i \in DOMAIN orders :
                        orders[i].orderId = r.body.orderId /\ orders[i].userId = Decoded(r.tok)}
       IN
       IF found = {} THEN RAnswer(s, 404, 0)
       ELSE \E i \in found :
                IF ~ReviewableStatus(orders[i].status) THEN RAnswer(s, 400, 0)
                ELSE IF \A k \in 1..Len(orders[i].orderedItems) :
                            orders[i].orderedItems[k].productId # r.body.productId
                THEN RAnswer(s, 400, 0)
                ELSE /\ rreq' = [rreq EXCEPT ![s].pc = "existing"]
                     /\ UNCHANGED last
    /\ UNCHANGED <<shopVars, reviews, nextRid, rstarted, voted, sessionVars, extVars>>

\* Review.findOne({ userId, productId, orderId, status: 'active' }) resolves
createReview_findExisting(s) ==
    /\ rreq[s].pc = "existing"
    /\ LET r == rreq[s]
       IN
       IF \E i \in DOMAIN reviews :
              /\ reviews[i].userId = Decoded(r.tok)
              /\ reviews[i].productId = r.body.productId
              /\ reviews[i].orderId = r.body.orderId
              /\ reviews[i].status = "active"
       THEN RAnswer(s, 400, 0)
       ELSE /\ rreq' = [rreq EXCEPT ![s].pc = "user"]
            /\ UNCHANGED last
    /\ UNCHANGED <<shopVars, reviews, nextRid, rstarted, voted, sessionVars, extVars>>

\* User.findOne({ userId }) resolves
createReview_findUser(s) ==
    /\ rreq[s].pc = "user"
    /\ IF FindUser(Decoded(rreq[s].tok)) = {} THEN RAnswer(s, 404, 0)
       ELSE /\ rreq' = [rreq EXCEPT ![s].pc = "save"]
            /\ UNCHANGED last
    /\ UNCHANGED <<shopVars, reviews, nextRid, rstarted, voted, sessionVars, extVars>>

\* newReview.save() resolves, or is rejected by the unique index on reviewId;
\* rid is what generateUniqueReviewId returned
createReview_save(s, rid) ==
    /\ rreq[s].pc = "save"
    /\ IF rid \in ReviewIdsInUse
       THEN /\ RAnswer(s, 500, 0)
            /\ UNCHANGED <<reviews, nextRid>>
       ELSE /\ reviews' = (nextRid :> NewReview(rid, Decoded(rreq[s].tok), rreq[s].body))
                            @@ reviews
            /\ nextRid' = nextRid + 1
            /\ RAnswer(s, 201, nextRid)
    /\ UNCHANGED <<shopVars, rstarted, voted, sessionVars, extVars>>

CreateReviewStart ==
    \E s \in ReviewSlots, tok \in {NoToken, Customer1.userId, Admin1.userId},
       body \in ReviewBodies :
        createReview_start(s, tok, body)
CreateReviewFindOrder == \E s \in ReviewSlots : createReview_findOrder(s)
CreateReviewFindExisting == \E s \in ReviewSlots : createReview_findExisting(s)
CreateReviewFindUser == \E s \in ReviewSlots : createReview_findUser(s)
CreateReviewSave ==
    \E s \in ReviewSlots, rid \in {nextRid} \cup ReviewIdsInUse : createReview_save(s, rid)

\* ------------------------------------------------- voteReviewHelpful, deleteReview
\* the values of isHelpful are written "true" and "false"; a request may
\* carry any other value
IsBoolean(value) == value \in {"true", "false"}

\* what a vote does to helpfulCount; oldVote is "none" for a first vote
VoteDelta_Unit(oldVote, isHelpful) ==
    IF oldVote = isHelpful THEN 0
    ELSE IF isHelpful = "true" THEN 1 ELSE -1

VoteDelta(oldVote, isHelpful) ==
    IF oldVote = "none" THEN (IF isHelpful = "true" THEN 1 ELSE -1)
    ELSE IF oldVote # isHelpful THEN (IF isHelpful = "true" THEN 2 ELSE -2)
    ELSE 0

\* helpfulVotes.findIndex(vote => vote.userId === userId); 0 stands for -1
FindIndex(votes, uid) ==
    IF \E k \in 1..Len(votes) : votes[k].userId = uid
    THEN CHOOSE k \in 1..Len(votes) :
             /\ votes[k].userId = uid
             /\ \A j \in 1..(k - 1) : votes[j].userId # uid
    ELSE 0

voteReviewHelpful(tok, rid, isHelpful) ==
    /\ voted < MaxVotes
    /\ voted' = voted + 1
    /\ LET auth == authenticateToken(tok)
           R(code, id) == Resp("voteReviewHelpful", tok, code, id, isHelpful, "")
           reject(code) == /\ last' = R(code, 0)
                           /\ UNCHANGED reviews
           found == {i \in DOMAIN reviews :
                        reviews[i].reviewId = rid /\ reviews[i].status = "active"}
       IN
       IF auth # 200 THEN reject(auth)
       ELSE IF ~IsBoolean(isHelpful) THEN reject(400)
       ELSE IF found = {} THEN reject(404)
       ELSE \E i \in found :
                LET review == reviews[i]
                    existingVoteIndex == FindIndex(review.helpfulVotes, Decoded(tok))
                    oldVote == IF existingVoteIndex = 0 THEN "none"
                               ELSE review.helpfulVotes[existingVoteIndex].isHelpful
                    helpfulVotes ==
                        IF existingVoteIndex = 0
                        THEN Append(review.helpfulVotes,
                                    [userId |-> Decoded(tok), isHelpful |-> isHelpful])
                        ELSE [review.helpfulVotes EXCEPT
                                 ![existingVoteIndex].isHelpful = isHelpful]
                IN  /\ reviews' = [reviews EXCEPT
                           ![i].helpfulVotes = helpfulVotes,
                           ![i].helpfulCount = @ + VoteDelta(oldVote, isHelpful)]
                    /\ last' = R(200, i)
    /\ UNCHANGED <<shopVars, nextRid, rreq, rstarted, sessionVars, extVars>>

VoteReviewHelpful ==
    \E tok \in {NoToken, Customer1.userId, Admin1.userId}, rid \in 1..2,
       isHelpful \in {"true", "false", "yes"} :
        /\ (tok = NoToken \/ isHelpful = "yes") => rid = 1
        /\ voteReviewHelpful(tok, rid, isHelpful)

\* soft delete: the review stays in the collection with status deleted
deleteReview(tok, rid) ==
    /\ voted < MaxVotes
    /\ voted' = voted + 1
    /\ LET auth == adminAuth(tok)
           R(code, id) == Resp("deleteReview", tok, code, id, "", "")
           found == {i \in DOMAIN reviews : reviews[i].reviewId = rid}
       IN
       IF auth # 200 THEN /\ last' = R(auth, 0)
                          /\ UNCHANGED reviews
       ELSE IF found = {} THEN /\ last' = R(404, 0)
                               /\ UNCHANGED reviews
       ELSE \E i \in found :
                /\ reviews' = [reviews EXCEPT ![i].status = "deleted"]
                /\ last' = R(200, i)
    /\ UNCHANGED <<shopVars, nextRid, rreq, rstarted, sessionVars, extVars>>

DeleteReview == \E tok \in {Customer1.userId, Admin1.userId} : deleteReview(tok, 1)

\* the requests of the vote scenarios: one customer reviews product P1 of
\* order 1, which an admin has delivered
DeliverFirstOrder == updateOrderStatus(Admin1.userId, 1, "delivered")

ReviewFirstOrder ==
    \/ createReview_start(1, Customer1.userId, [productId |-> "P1", orderId |-> 1, rating |-> 5])
    \/ createReview_findOrder(1)
    \/ createReview_findExisting(1)
    \/ createReview_findUser(1)
    \/ createReview_save(1, nextRid)

\* ------------------------------------------------------- sessions and tokens
\* loginAdmin signs its token with expiresIn '24h'
AdminTokenDays == 1

\* credentials a client may send to loginAdmin
AdminLogins ==
    {[phonenumber |-> Admin1.phonenumber, password |-> "s3cret"],
     [phonenumber |-> Admin1.phonenumber, password |-> "guess"],
     [phonenumber |-> Customer1.phonenumber, password |-> Customer1.phonenumber],
     [phonenumber |-> "", password |-> "s3cret"]}

loginAdmin(body) ==
    /\ LET R(code, id, token) == Resp("loginAdmin", NoToken, code, id, token, "")
           found == {u \in users : u.phonenumber = body.phonenumber /\ u.type = "admin"}
       IN
       IF body.phonenumber = "" \/ body.password = "" THEN last' = R(400, 0, NoToken)
       ELSE IF found = {} THEN last' = R(401, 0, NoToken)
       ELSE \E user \in found :
                IF ~compareSync(body.password, user.password) THEN last' = R(401, 0, NoToken)
                ELSE last' = R(200, user._id,
                               jwtSignExpiring(user.userId, now + AdminTokenDays))
    /\ UNCHANGED <<shopVars, reviewVars, sessionVars, extVars>>

LoginAdmin == \E body \in AdminLogins : loginAdmin(body)

\* the registered customer logs in through loginOrRegister
CustomerLogin ==
    \/ StartRequest(1, "loginOrRegister",
                    [firstName |-> Customer1.firstName,
                     phonenumber |-> Customer1.phonenumber, homeaddress |-> "12 Lane"])
    \/ loginOrRegister_find(1)

\* the operations that answer with a session token
LoginOps == {"loginOrRegister", "createUser", "loginAdmin"}

\* a client keeps the token of the response it has just received
KeepToken ==
    /\ last.op \in LoginOps /\ last.code \in {200, 201}
    /\ last.arg \notin held
    /\ held' = held \cup {last.arg}
    /\ UNCHANGED <<shopVars, reviewVars, last, now, extVars>>

\* a day passes
Tick ==
    /\ now < MaxTime
    /\ now' = now + 1
    /\ UNCHANGED <<shopVars, reviewVars, last, held, extVars>>

\* GET /my-orders: mounted on the order router behind middleware/auth.js and
\* on the user router behind the router's own authenticateToken
MyOrdersRoutes == {"/api/orders/my-orders", "/api/users/my-orders"}

RouteAuth(route, tok) ==
    IF route = "/api/users/my-orders" THEN userRouter_authenticateToken(tok)
    ELSE AuthResponse(tok)

\* out: the middleware's message, or the userId the handler ran for
getMyOrders(route, tok) ==
    /\ LET auth == RouteAuth(route, tok)
           R(code, out) == Resp("getMyOrders", tok, code, 0, route, out)
       IN
       IF auth.code # 200 THEN last' = R(auth.code, auth.message)
       ELSE last' = R(200, Decoded(tok))
    /\ UNCHANGED <<shopVars, reviewVars, sessionVars, extVars>>

GetMyOrders ==
    \E route \in MyOrdersRoutes, tok \in held \cup {NoToken, BadToken, UserId("USR", 9)} :
        getMyOrders(route, tok)

\* -------------------------------------------------- adminLogin and its lockout
MAX_FAILED_ATTEMPTS == 5
LOCKOUT_DURATION == 15      \* 15 * 60 * 1000 ms, in minutes

\* the clock moves in steps of this many minutes
TickMinutes == 5

\* Map.set(key, value)
MapSet(map, key, value) == (key :> value) @@ map

\* checkAccountLockout(identifier) at time t: the answer, and the Map after
\* the call (an expired lockout is deleted)
checkAccountLockout(map, identifier, t) ==
    IF identifier \in DOMAIN map /\ map[identifier].count >= MAX_FAILED_ATTEMPTS
    THEN LET lockoutExpiry == map[identifier].firstAttempt + LOCKOUT_DURATION
         IN  IF t < lockoutExpiry THEN [locked |-> TRUE, map |-> map]
             ELSE [locked |-> FALSE, map |-> RemoveKey(map, identifier)]
    ELSE [locked |-> FALSE, map |-> map]

\* recordFailedLogin(identifier) at time t
recordFailedLogin(map, identifier, t) ==
    LET attempts == IF identifier \in DOMAIN map THEN map[identifier]
                    ELSE [count |-> 0, firstAttempt |-> t]
        count == attempts.count + 1
    IN  MapSet(map, identifier,
               [count |-> count,
                firstAttempt |-> IF count = 1 THEN t ELSE attempts.firstAttempt])

clearFailedAttempts(map, identifier) == RemoveKey(map, identifier)

\* out: "locked", "failed" or "token"
adminLogin(body) ==
    /\ LET R(code, out) == Resp("adminLogin", NoToken, code, 0, body.phonenumber, out)
           lockoutStatus == checkAccountLockout(failedLoginAttempts, body.phonenumber, minutes)
           found == {u \in users : u.phonenumber = body.phonenumber /\ u.type = "admin"}
           failed == recordFailedLogin(lockoutStatus.map, body.phonenumber, minutes)
           fail == /\ last' = R(401, "failed")
                   /\ failedLoginAttempts' = failed
                   /\ fifthFailure' =
                          IF failed[body.phonenumber].count = MAX_FAILED_ATTEMPTS
                          THEN MapSet(fifthFailure, body.phonenumber, minutes)
                          ELSE fifthFailure
       IN
       IF body.phonenumber = "" \/ body.password = ""
       THEN last' = R(400, "") /\ UNCHANGED <<failedLoginAttempts, fifthFailure>>
       ELSE IF lockoutStatus.locked
       THEN last' = R(429, "locked") /\ UNCHANGED <<failedLoginAttempts, fifthFailure>>
       ELSE IF found = {} THEN fail
       ELSE \E user \in found :
                IF ~compareSync(body.password, user.password) THEN fail
                ELSE /\ last' = R(200, "token")
                     /\ failedLoginAttempts' =
                            clearFailedAttempts(lockoutStatus.map, body.phonenumber)
                     /\ UNCHANGED fifthFailure
    /\ UNCHANGED <<shopVars, reviewVars, sessionVars, minutes, exceptLock>>

AdminLogin == \E body \in AdminLogins : adminLogin(body)

\* the clock of the lockout store moves on
TickMinute ==
    /\ minutes < MaxTicks * TickMinutes
    /\ minutes' = minutes + TickMinutes
    /\ UNCHANGED <<shopVars, reviewVars, sessionVars, last, failedLoginAttempts, fifthFailure,
                   exceptLock>>

\* ------------------------------------------------------------- rate limiters
GeneralMaxRequests == 100   \* app.use(rateLimiter(100, 60000))
AuthMaxRequests == 10       \* authRateLimiter = rateLimiter(10, 60000)
WindowMs == 60000

\* the clock moves in steps of this many milliseconds
TickMs == 45000

\* checkRateLimit(identifier, maxRequests, windowMs) at time t over a Map:
\* the answer, and the Map after the call
checkRateLimit(map, identifier, maxRequests, windowMs, t) ==
    LET userRequests == IF identifier \in DOMAIN map THEN map[identifier]
                        ELSE [count |-> 0, resetTime |-> t + windowMs]
    IN  IF t > userRequests.resetTime
        THEN [allowed |-> TRUE,
              map |-> MapSet(map, identifier, [count |-> 1, resetTime |-> t + windowMs])]
        ELSE IF userRequests.count >= maxRequests
        THEN [allowed |-> FALSE, map |-> map]
        ELSE [allowed |-> TRUE,
              map |-> MapSet(map, identifier,
                             [userRequests EXCEPT !.count = @ + 1])]

\* the routes behind authRateLimiter
AuthRoutes == {"/api/users/login", "/api/users/register", "/api/admin/login"}

\* a request passes the general limiter, then, on an authentication route,
\* authRateLimiter; both count under req.ip in the one Map.  out: the limiter
\* that answered 429, or "next".  admitted counts, per limiter, the requests
\* that the limiter let pass, in windows that start and end as checkRateLimit
\* starts and ends them.
rateLimiter(ip, route) ==
    /\ LET R(code, out) == Resp("rateLimiter", NoToken, code, 0, route, out)
           general == checkRateLimit(requestCounts, ip, GeneralMaxRequests, WindowMs, ms)
           auth == checkRateLimit(general.map, ip, AuthMaxRequests, WindowMs, ms)
           own == checkRateLimit(admitted, <<"general", ip>>, GeneralMaxRequests, WindowMs, ms)
           ownAuth == checkRateLimit(own.map, <<"auth", ip>>, AuthMaxRequests, WindowMs, ms)
       IN
       /\ IF ~general.allowed
          THEN last' = R(429, "general") /\ requestCounts' = general.map
          ELSE IF route \notin AuthRoutes
          THEN last' = R(200, "next") /\ requestCounts' = general.map
          ELSE IF ~auth.allowed
          THEN last' = R(429, "auth") /\ requestCounts' = auth.map
          ELSE last' = R(200, "next") /\ requestCounts' = auth.map
       /\ admitted' = IF ~general.allowed THEN admitted
                      ELSE IF route \notin AuthRoutes \/ ~auth.allowed THEN own.map
                      ELSE ownAuth.map
    /\ UNCHANGED <<shopVars, reviewVars, sessionVars, ms, exceptRate>>

RateLimiter == \E route \in {"/api/products", "/api/users/login"} : rateLimiter("10.0.0.1", route)

\* the clock of the rate limiters moves on
TickMs45 ==
    /\ ms < MaxRateTicks * TickMs
    /\ ms' = ms + TickMs
    /\ UNCHANGED <<shopVars, reviewVars, sessionVars, last, requestCounts, admitted, exceptRate>>

\* ------------------------------------------------- secureAuth.js: logout
\* times are in half hours
ACCESS_TOKEN_EXPIRY == 2    \* '1h'

\* the delay of the setTimeout that takes a token off the blacklist
BlacklistDelay_Short == ACCESS_TOKEN_EXPIRY - 1

BlacklistDelay == 2         \* 60 * 60 * 1000 ms

\* the tokens of this middleware are records; the header may carry none, or
\* a string that jwt.verify rejects
SecureToken(userId, exp, tokenType) == [userId |-> userId, exp |-> exp, tokenType |-> tokenType]

MissingToken == SecureToken(NoToken, 0, "missing")
GarbageToken == SecureToken(BadToken, 0, "garbage")

\* generateAccessToken(user, req) and generateRefreshToken(user) at time t
generateAccessToken(user, t) == SecureToken(user.userId, t + ACCESS_TOKEN_EXPIRY, "access")

\* authenticateToken of secureAuth.js at time t: 200 and "next", or the
\* status and the code it answers with
secureAuth_authenticateToken(token, t) ==
    IF token = MissingToken THEN MwResp(401, "TOKEN_MISSING")
    ELSE IF token \in tokenBlacklist THEN MwResp(401, "TOKEN_REVOKED")
    ELSE IF token = GarbageToken THEN MwResp(401, "TOKEN_INVALID")
    ELSE IF t >= token.exp THEN MwResp(401, "TOKEN_EXPIRED")
    ELSE IF token.tokenType # "access" THEN MwResp(401, "INVALID_TOKEN_TYPE")
    ELSE IF FindUser(token.userId) = {} THEN MwResp(401, "USER_NOT_FOUND")
    ELSE MwResp(200, "next")

\* a login or refreshAccessToken hands an access token to the customer
IssueAccessToken ==
    /\ Cardinality(issued) < MaxTokens
    /\ issued' = issued \cup {generateAccessToken(Customer1, halfHours)}
    /\ issued' # issued
    /\ UNCHANGED <<shopVars, reviewVars, sessionVars, last, tokenBlacklist, timers, halfHours,
                   loggedOut, exceptSecure>>

\* a request to a route behind authenticateToken
secureRequest(token) ==
    /\ LET auth == secureAuth_authenticateToken(token, halfHours)
       IN  last' = Resp("secureAuth", token, auth.code, 0, "", auth.message)
    /\ UNCHANGED <<shopVars, reviewVars, sessionVars, secureVars, exceptSecure>>

SecureRequest == \E token \in issued \cup {MissingToken, GarbageToken} : secureRequest(token)

\* logout: the token of the header is put on the blacklist and a timer is
\* set to take it off again
logout(token) ==
    /\ IF token # MissingToken
       THEN /\ tokenBlacklist' = tokenBlacklist \cup {token}
            /\ timers' = timers \cup {[token |-> token, due |-> halfHours + BlacklistDelay]}
            /\ loggedOut' = loggedOut \cup {token}
       ELSE UNCHANGED <<tokenBlacklist, timers, loggedOut>>
    /\ last' = Resp("logout", token, 200, 0, "", "")
    /\ UNCHANGED <<shopVars, reviewVars, sessionVars, halfHours, issued, exceptSecure>>

Logout == \E token \in issued \cup {MissingToken} : logout(token)

\* a timer of logout is due and its callback runs
BlacklistTimer ==
    /\ \E timer \in timers :
           /\ halfHours >= timer.due
           /\ tokenBlacklist' = tokenBlacklist \ {timer.token}
           /\ timers' = timers \ {timer}
    /\ UNCHANGED <<shopVars, reviewVars, sessionVars, last, halfHours, issued, loggedOut,
                   exceptSecure>>

\* half an hour passes
TickHalfHour ==
    /\ halfHours < MaxHalfHours
    /\ halfHours' = halfHours + 1
    /\ UNCHANGED <<shopVars, reviewVars, sessionVars, last, tokenBlacklist, timers, issued,
                   loggedOut, exceptSecure>>

\* ------------------------------------------------------ roles of accounts
\* registration bodies that also carry a type field
RoleBodies ==
    {[firstName |-> "sam", phonenumber |-> "0722222222", homeaddress |-> "12 Lane",
      type |-> t] : t \in {"", "admin"}}

\* the revision of createUser in src/unnamed/part_000: the greatest userId
\* in the collection (a USR one while a customer exists) plus one
LatestUserNumber ==
    CHOOSE n \in {u.userId[2] : u \in {v \in users : v.userId[1] = "USR"}} :
        \A u \in users : u.userId[1] = "USR" => u.userId[2] <= n

\* the document that revision builds: type: newUserData.type || "customer"
NewUserTyped(n, userId, body) ==
    [_id |-> n, userId |-> userId, firstName |-> body.firstName,
     phonenumber |-> body.phonenumber,
     type |-> IF body.type = "" THEN "customer" ELSE body.type,
     password |-> Hash(body.phonenumber)]

createUser_typed(body) ==
    /\ started < MaxRegistrations
    /\ started' = started + 1
    /\ LET R(code, id, token) == Resp("createUser", NoToken, code, id, token, "part_000")
           doc == NewUserTyped(started + 1, UserId("USR", LatestUserNumber + 1), body)
           reject(code) == /\ last' = R(code, 0, NoToken)
                           /\ UNCHANGED users
       IN
       IF body.firstName = "" \/ body.phonenumber = "" \/ body.homeaddress = ""
       THEN reject(400)
       ELSE IF \E u \in users : u.phonenumber = body.phonenumber THEN reject(409)
       ELSE IF DuplicateKey(doc) THEN reject(500)
       ELSE /\ users' = users \cup {doc}
            /\ last' = R(201, doc._id, jwtSign(doc.userId))
    /\ UNCHANGED <<orders, products, nextOid, createdItems, productOps, ureq,
                   reviewVars, sessionVars, extVars>>

CreateUserTyped == \E body \in RoleBodies : createUser_typed(body)

\* the current createUser, called with the same bodies
CreateUserCurrent ==
    \/ \E body \in RoleBodies : StartRequest(1, "createUser", body)
    \/ createUser_find(1)
    \/ countDocuments(1)
    \/ save(1)

\* bodies of createAdminUser
AdminBodies ==
    {[firstName |-> "kim", phonenumber |-> "0733333333", homeaddress |-> "1 Main",
      password |-> "pw"],
     [firstName |-> "kim", phonenumber |-> Customer1.phonenumber, homeaddress |-> "1 Main",
      password |-> "pw"],
     [firstName |-> "kim", phonenumber |-> "0733333333", homeaddress |-> "1 Main",
      password |-> ""]}

countAdmins == Cardinality({u \in users : u.type = "admin"})

createAdminUser(tok, body) ==
    /\ started < MaxRegistrations
    /\ started' = started + 1
    /\ LET auth == adminAuth(tok)
           R(code, id) == Resp("createAdminUser", tok, code, id, NoToken, body)
           doc == [_id |-> started + 1, userId |-> UserId("ADM", countAdmins + 1),
                   firstName |-> body.firstName, phonenumber |-> body.phonenumber,
                   type |-> "admin", password |-> Hash(body.password)]
           reject(code) == /\ last' = R(code, 0)
                           /\ UNCHANGED users
       IN
       IF auth # 200 THEN reject(auth)
       ELSE IF body.firstName = "" \/ body.phonenumber = "" \/ body.homeaddress = ""
                  \/ body.password = ""
       THEN reject(400)
       ELSE IF \E u \in users : u.phonenumber = body.phonenumber THEN reject(409)
       ELSE IF DuplicateKey(doc) THEN reject(500)
       ELSE /\ users' = users \cup {doc}
            /\ last' = R(201, doc._id)
    /\ UNCHANGED <<orders, products, nextOid, createdItems, productOps, ureq,
                   reviewVars, sessionVars, extVars>>

CreateAdminUser ==
    \E tok \in {NoToken, Customer1.userId, Admin1.userId, UserId("USR", 2)},
       body \in AdminBodies :
        createAdminUser(tok, body)

\* ---------------------------------------------------------- deleteAdminUser
\* deleteAdminUser (and deleteAdminAccount, its other revision) answers after
\* two store round trips, findOne and deleteOne; each one is a step.
DeleteSlots == {1, 2}

\* the second admin account that createAdminUser makes
Admin2Id == UserId("ADM", 2)

\* req.user as adminAuth leaves it: the userId claim and the stored type
ReqUser(tok) ==
    LET user == CHOOSE u \in FindUser(Decoded(tok)) : TRUE
    IN  [userId |-> Decoded(tok), type |-> user.type]

\* the test on the userId in the path against the caller's own
IsSelf_Never(reqUserId, userId) == FALSE

IsSelf(reqUserId, userId) == reqUserId = userId

DResp(tok, code, userId, via) == Resp("deleteAdminUser", tok, code, 0, userId, via)

DAnswer(s, code, via) ==
    /\ dreq' = [dreq EXCEPT ![s] = Idle]
    /\ last' = DResp(dreq[s].tok, code, dreq[s].userId, via)

\* adminAuth and the synchronous checks, then User.findOne is sent
deleteAdminUser_start(s, tok, userId) ==
    /\ dreq[s].pc = "idle"
    /\ dstarted < MaxDeletes
    /\ dstarted' = dstarted + 1
    /\ LET auth == adminAuth(tok)
           reject(code) == /\ last' = DResp(tok, code, userId, "")
                           /\ UNCHANGED dreq
       IN
       IF auth # 200 THEN reject(auth)
       ELSE IF ReqUser(tok).type # "admin" THEN reject(403)
       ELSE IF IsSelf(ReqUser(tok).userId, userId) THEN reject(400)
       ELSE /\ dreq' = [dreq EXCEPT ![s] =
                           [pc |-> "find", tok |-> tok, user |-> ReqUser(tok),
                            userId |-> userId]]
            /\ UNCHANGED last
    /\ UNCHANGED <<shopVars, reviewVars, sessionVars, exceptAdmin>>

\* User.findOne({ userId, type: 'admin' }) resolves
deleteAdminUser_find(s) ==
    /\ dreq[s].pc = "find"
    /\ IF \A u \in users : ~(u.userId = dreq[s].userId /\ u.type = "admin")
       THEN DAnswer(s, 404, "findOne")
       ELSE /\ dreq' = [dreq EXCEPT ![s].pc = "delete"]
            /\ UNCHANGED last
    /\ UNCHANGED <<shopVars, reviewVars, sessionVars, dstarted, exceptAdmin>>

\* User.deleteOne({ userId }) resolves: one matching document, if there is
\* one, is removed
deleteAdminUser_delete(s) ==
    /\ dreq[s].pc = "delete"
    /\ LET matches == FindUser(dreq[s].userId)
       IN  IF matches = {} THEN UNCHANGED users
           ELSE \E u \in matches : users' = users \ {u}
    /\ DAnswer(s, 200, "deleteOne")
    /\ UNCHANGED <<orders, products, nextOid, createdItems, productOps, ureq, started,
                   reviewVars, sessionVars, dstarted, exceptAdmin>>

\* the accounts a request may name: both admins, a customer, and none
DeleteTargets == {Admin1.userId, Admin2Id, Customer1.userId, UserId("ADM", 9)}

DeleteAdminUserStart ==
    \E s \in DeleteSlots, tok \in {NoToken, Customer1.userId, Admin1.userId, Admin2Id},
       userId \in DeleteTargets :
        /\ tok \in {NoToken, Customer1.userId} => userId = Admin1.userId
        /\ deleteAdminUser_start(s, tok, userId)
DeleteAdminUserFind == \E s \in DeleteSlots : deleteAdminUser_find(s)
DeleteAdminUserDelete == \E s \in DeleteSlots : deleteAdminUser_delete(s)

\* the bodies with which admins make further admins
NewAdminBodies ==
    {[firstName |-> "kim", phonenumber |-> p, homeaddress |-> "1 Main", password |-> "pw"] :
        p \in {"0733333333", "0744444444"}}

AdminCreatesAdmin ==
    \E tok \in {Admin1.userId, Admin2Id}, body \in NewAdminBodies : createAdminUser(tok, body)

\* one admin request at a time to delete an admin account
DeleteAdminInTurn ==
    \/ \E tok \in {Admin1.userId, Admin2Id}, userId \in {Admin1.userId, Admin2Id} :
           deleteAdminUser_start(1, tok, userId)
    \/ deleteAdminUser_find(1)
    \/ deleteAdminUser_delete(1)

\* two customers register at the same time with different phone numbers
RegisterTwo ==
    \/ StartRequest(1, "createUser",
                    [firstName |-> "sam", phonenumber |-> "0722222222",
                     homeaddress |-> "12 Lane"])
    \/ StartRequest(2, "createUser",
                    [firstName |-> "kim", phonenumber |-> "0755555555",
                     homeaddress |-> "12 Lane"])
    \/ CreateUserFind
    \/ CountDocuments
    \/ Save

\* -------------------------------------------------------------- specifications

Init ==
    /\ users = {Customer1, Admin1}
    /\ orders = <<>>
    /\ products = InitProducts
    /\ nextOid = 1
    /\ createdItems = <<>>
    /\ productOps = 0
    /\ last = Resp("none", NoToken, 0, 0, "", "")
    /\ ureq = [s \in Slots |-> Idle]
    /\ started = 0
    /\ reviews = <<>>
    /\ nextRid = 1
    /\ rreq = [s \in ReviewSlots |-> Idle]
    /\ rstarted = 0
    /\ voted = 0
    /\ now = 0
    /\ held = {}
    /\ dreq = [s \in DeleteSlots |-> Idle]
    /\ dstarted = 0
    /\ oreq = [s \in OrderSlots |-> Idle]
    /\ ostarted = 0
    /\ failedLoginAttempts = <<>>
    /\ minutes = 0
    /\ fifthFailure = <<>>
    /\ requestCounts = <<>>
    /\ ms = 0
    /\ admitted = <<>>
    /\ tokenBlacklist = {}
    /\ timers = {}
    /\ halfHours = 0
    /\ issued = {}
    /\ loggedOut = {}

\* the order lifecycle: customers create orders, an admin moves and deletes
\* them
Next == CreateOrder \/ AdminUpdateOrderStatus \/ AdminAcceptOrder \/ AdminDeleteOrder

Spec == Init /\ [][Next]_vars

\* the order lifecycle over a store that may fail during createOrder
NextFault == CustomerCreateOrder \/ CreateOrderFaulty \/ AdminDeleteOrder

SpecFault == Init /\ [][NextFault]_vars

\* createOrder with identifier collisions and store failures
NextRetry == CreateOrder \/ CreateOrderFaulty \/ AdminDeleteOrder

SpecRetry == Init /\ [][NextRetry]_vars

\* the admin routes of the order router, called with every kind of token
NextAuth == CheckoutOne \/ UpdateOrderStatus \/ AcceptOrder \/ DeleteOrder

SpecAuth == Init /\ [][NextAuth]_vars

\* orders next to catalog edits
NextCatalog ==
    CustomerCreateOrder \/ AdminDeliverOrder \/ AdminAcceptOrder
        \/ UpdateProduct \/ DeleteProduct \/ GetOrderById

SpecCatalog == Init /\ [][NextCatalog]_vars

\* admin requests on one order, interleaved at their store round trips
NextOrderRace ==
    CheckoutOne \/ OrderRequestStart \/ OrderFindById \/ UpdateOrderStatusWrite
        \/ UpdateOrderStatusTotals \/ DeleteOrderTotals \/ DeleteOrderWrite

SpecOrderRace == Init /\ [][NextOrderRace]_vars

\* quotes next to orders and catalog edits
NextQuote == CheckoutOne \/ AdminDeliverOrder \/ UpdateProduct \/ GetQuote

SpecQuote == Init /\ [][NextQuote]_vars

\* registrations, interleaved at their store round trips
NextUsers ==
    CreateUserStart \/ LoginOrRegisterStart \/ CreateUserFind \/ LoginOrRegisterFind
        \/ CountDocuments \/ Save

SpecUsers == Init /\ [][NextUsers]_vars

\* reviews of delivered orders, interleaved at their store round trips
NextReviews ==
    CheckoutOne \/ AdminDeliverOrder
        \/ CreateReviewStart \/ CreateReviewFindOrder \/ CreateReviewFindExisting
        \/ CreateReviewFindUser \/ CreateReviewSave

SpecReviews == Init /\ [][NextReviews]_vars

\* votes on the reviews of one delivered order
NextVotes ==
    CheckoutOne \/ DeliverFirstOrder \/ ReviewFirstOrder \/ VoteReviewHelpful \/ DeleteReview

SpecVotes == Init /\ [][NextVotes]_vars

\* logins, the passing of time, and requests to a protected route
NextTokens == LoginAdmin \/ CustomerLogin \/ KeepToken \/ Tick \/ GetMyOrders

SpecTokens == Init /\ [][NextTokens]_vars

\* admins make and delete admin accounts, interleaved at the round trips of
\* deleteAdminUser
NextAdmins ==
    AdminCreatesAdmin \/ DeleteAdminUserStart \/ DeleteAdminUserFind \/ DeleteAdminUserDelete

SpecAdmins == Init /\ [][NextAdmins]_vars

\* admin logins against the lockout store, over time
NextLockout == AdminLogin \/ TickMinute

SpecLockout == Init /\ [][NextLockout]_vars

\* requests of one client through the rate limiters, over time
NextRate == RateLimiter \/ TickMs45

SpecRate == Init /\ [][NextRate]_vars

\* access tokens of secureAuth.js: issued, used, logged out, over time
NextSecure == IssueAccessToken \/ SecureRequest \/ Logout \/ BlacklistTimer \/ TickHalfHour

SpecSecure == Init /\ [][NextSecure]_vars

\* registrations in turn, and logins through loginUser
NextLogin == RegisterInTurn \/ LoginUser

SpecLogin == Init /\ [][NextLogin]_vars

\* orders that ask for any number of units, delivered or deleted by an admin
NextStock == CheckoutStock \/ AdminDeliverOrder \/ AdminDeleteOrder

SpecStock == Init /\ [][NextStock]_vars

\* the handlers that make a userId from the number of stored accounts
NextIds == AdminCreatesAdmin \/ DeleteAdminInTurn \/ RegisterTwo

SpecIds == Init /\ [][NextIds]_vars

\* the paths that create accounts
NextRoles == CreateUserCurrent \/ CreateUserTyped \/ CreateAdminUser

SpecRoles == Init /\ [][NextRoles]_vars

\* ======================================================================
\* Properties
\* ======================================================================
RECURSIVE SumItems(_, _)
SumItems(items, pid) ==
    IF items = <<>> THEN 0
    ELSE (IF Head(items).productId = pid THEN Head(items).quantity ELSE 0)
             + SumItems(Tail(items), pid)

RECURSIVE Outstanding(_, _)
Outstanding(ids, pid) ==
    IF ids = {} THEN 0
    ELSE LET i == CHOOSE x \in ids : TRUE
         IN  (IF orders[i].status # "delivered"
              THEN SumItems(orders[i].orderedItems, pid) ELSE 0)
                 + Outstanding(ids \ {i}, pid)

HasMissingProduct(cart) == \E k \in 1..Len(cart) : cart[k].productId \notin DOMAIN products

\* C1: every product's totalOrdered is its initial value plus the quantities
\* ordered of it in the orders that exist and are not delivered.
C1_CounterIsOutstanding ==
    \A pid \in DOMAIN products :
        products[pid].totalOrdered =
            InitProducts[pid].totalOrdered + Outstanding(DOMAIN orders, pid)

\* an order was deleted, another one is still open and counted
C1_Witness ==
    /\ last.op = "deleteOrder" /\ last.code = 200
    /\ \E i \in DOMAIN orders : orders[i].status = "shipped"
    /\ products["P1"].totalOrdered > 0
    /\ products["P1"].quantity + products["P1"].totalOrdered < InitProducts["P1"].quantity

\* C2: a successful createOrder adds exactly one order, in status pending,
\* and moves each existing product's quantity down and its totalOrdered up by
\* the quantities ordered of it; nothing else in the catalog changes.
C2_CreateEffect ==
    [][(last'.op = "createOrder" /\ last'.code = 201) =>
          /\ last'.id \notin DOMAIN orders
          /\ DOMAIN orders' = DOMAIN orders \cup {last'.id}
          /\ \A i \in DOMAIN orders : orders'[i] = orders[i]
          /\ orders'[last'.id].status = "pending"
          /\ DOMAIN products' = DOMAIN products
          /\ \A pid \in DOMAIN products :
                products'[pid] =
                    [products[pid] EXCEPT
                        !.quantity = @ - SumItems(last'.arg, pid),
                        !.totalOrdered = @ + SumItems(last'.arg, pid)]]_vars

\* the example of the specification: two units of P1 ordered out of ten
C2_Witness ==
    /\ last.op = "createOrder" /\ last.code = 201 /\ last.arg = <<ItemA>>
    /\ products["P1"].quantity = 8 /\ products["P1"].totalOrdered = 2
    /\ orders[last.id].status = "pending"

\* C3: updateOrderStatus to delivered on an order that is delivered already
\* leaves every product as it is.
C3_SecondDeliveryIsNoOp ==
    [][(/\ last'.op = "updateOrderStatus" /\ last'.code = 200
        /\ last'.arg = "delivered"
        /\ orders[last'.id].status = "delivered") => products' = products]_vars

C3_Witness ==
    /\ last.op = "updateOrderStatus" /\ last.code = 200
    /\ last.arg = "delivered" /\ last.out = "delivered"
    /\ SumItems(orders[last.id].orderedItems, "P1") > 0
    /\ products["P1"].totalOrdered = 0

\* C6 as claimed: a status only moves forward along pending, accepted,
\* preparing, shipped, delivered, or to cancelled from a state that is not
\* final; delivered and cancelled are never left.
Rank(status) ==
    CASE status = "pending" -> 1
      [] status = "accepted" -> 2
      [] status = "preparing" -> 3
      [] status = "shipped" -> 4
      [] status = "delivered" -> 5
      [] OTHER -> 6

C6_ForwardOnly ==
    [][\A i \in DOMAIN orders \cap DOMAIN orders' :
          orders'[i].status # orders[i].status =>
              /\ orders[i].status \notin {"delivered", "cancelled"}
              /\ \/ orders'[i].status = "cancelled"
                 \/ Rank(orders'[i].status) > Rank(orders[i].status)]_vars

\* C6 as amended: a status changes only through acceptOrder, from pending to
\* accepted, or through updateOrderStatus, to the valid status the request
\* names, whatever the status was before.
C6_AnyValidStatus ==
    [][\A i \in DOMAIN orders \cap DOMAIN orders' :
          orders'[i].status # orders[i].status =>
              /\ last'.id = i /\ last'.code = 200
              /\ \/ /\ last'.op = "acceptOrder"
                    /\ orders[i].status = "pending"
                    /\ orders'[i].status = "accepted"
                 \/ /\ last'.op = "updateOrderStatus"
                    /\ last'.arg \in validStatuses
                    /\ orders'[i].status = last'.arg]_vars

\* an order that was delivered has been moved back to pending
C6_Witness ==
    /\ last.op = "updateOrderStatus" /\ last.code = 200
    /\ last.arg = "pending" /\ last.out = "delivered"
    /\ orders[last.id].status = "pending"

\* C7 as claimed: createOrder with a line item whose product does not exist
\* persists no order and changes no product.
C7_MissingProductAborts ==
    [][(last'.op = "createOrder" /\ HasMissingProduct(last'.arg)) =>
          (orders' = orders /\ products' = products)]_vars

\* C8 as claimed: when createOrder answers with a failure, no order was
\* persisted and no product was changed.
C8_FailureLeavesNothing ==
    [][(last'.op = "createOrder" /\ last'.code >= 400) =>
          (orders' = orders /\ products' = products)]_vars

\* C9 as claimed: each persisted line item carries the name and the price
\* the catalog has for its product when the order is created.
C9_SnapshotFromCatalog ==
    [][(last'.op = "createOrder" /\ last'.code = 201) =>
          \A k \in 1..Len(orders'[last'.id].orderedItems) :
              LET item == orders'[last'.id].orderedItems[k]
              IN  item.productId \in DOMAIN products =>
                      /\ item.name = products[item.productId].productName
                      /\ item.price = products[item.productId].lastPrice]_vars

\* C10: the line items of an order stay the ones stored at creation, and
\* getOrderById returns exactly those to the owner.
C10_LineItemsImmutable ==
    /\ \A i \in DOMAIN orders : orders[i].orderedItems = createdItems[i]
    /\ (last.op = "getOrderById" /\ last.code = 200) => last.out = createdItems[last.id]

\* the owner fetches an order after its status and its product have changed
C10_Witness ==
    /\ last.op = "getOrderById" /\ last.code = 200
    /\ productOps > 0
    /\ orders[last.id].status = "delivered"
    /\ SumItems(last.out, "P1") > 0
    /\ ("P1" \notin DOMAIN products \/ products["P1"].lastPrice # InitProducts["P1"].lastPrice)

\* C4: no two accounts share a phone number, and a createUser request that
\* meets an account with its phone number, at the lookup or at the insert,
\* is answered with 409 and adds no account.
PhoneRegistered(phone) == \E u \in users : u.phonenumber = phone

Steps(s, op, pc) ==
    /\ ureq[s].pc = pc /\ ureq[s].op = op
    /\ ureq'[s] # ureq[s]

C4_PhoneUnique ==
    /\ [](\A u, v \in users : u.phonenumber = v.phonenumber => u = v)
    /\ [][\A s \in Slots :
             (/\ Steps(s, "createUser", "find") \/ Steps(s, "createUser", "save")
              /\ PhoneRegistered(ureq[s].body.phonenumber))
                 => (last'.code = 409 /\ users' = users)]_vars

\* a createUser request lost the race for its phone number at the insert
C4_Witness ==
    /\ last.op = "createUser" /\ last.code = 409 /\ last.out = "index"
    /\ Cardinality({u \in users : u.phonenumber = "0722222222"}) = 1

\* C5 as claimed: loginOrRegister with a name that has no account and a
\* phone number that an account has is answered with a conflict (409) and
\* adds no account.
C5_DuplicatePhoneIsConflict ==
    [][\A s \in Slots :
          (/\ Steps(s, "loginOrRegister", "save")
           /\ PhoneRegistered(ureq[s].body.phonenumber))
              => (last'.code = 409 /\ users' = users)]_vars

\* C11 as claimed: deleting an order that is not delivered gives back to each
\* product's quantity what the creation of the order took from it.
C11_DeleteRestoresQuantity ==
    [][(/\ last'.op = "deleteOrder" /\ last'.code = 200
        /\ orders[last'.id].status # "delivered") =>
          \A pid \in DOMAIN products :
              products'[pid].quantity =
                  products[pid].quantity + SumItems(createdItems[last'.id], pid)]_vars

\* C12: createOrder saves a second time, with a new identifier, exactly when
\* the first save was rejected as a duplicate orderId; when the second save
\* is a duplicate too, or the first save failed otherwise, the request fails
\* and no order or product changes; no two orders share an orderId.
C12_RetryOnce ==
    /\ [](\A i, j \in DOMAIN orders : orders[i].orderId = orders[j].orderId => i = j)
    /\ [][(last'.op = "createOrder" /\ last'.out # <<>>) =>
             LET first == last'.out[1]
                 second == last'.out[2]
                 nothing == last'.code = 500 /\ orders' = orders /\ products' = products
             IN  /\ second # "none" <=> first = "duplicate"
                 /\ (first = "duplicate" /\ second = "duplicate") => nothing
                 /\ first = "error" => nothing
                 /\ (first = "duplicate" /\ second = "saved") =>
                        /\ last'.id \in DOMAIN orders' \ DOMAIN orders
                        /\ orders'[last'.id].orderId \notin OrderIdsInUse]_vars

\* a first identifier collided and the retry stored the order under a new one
C12_Witness ==
    /\ last.op = "createOrder" /\ last.code = 201
    /\ last.out = <<"duplicate", "saved">>
    /\ Cardinality(DOMAIN orders) = 2
    /\ Cardinality(OrderIdsInUse) = 2

\* C13: updateOrderStatus, acceptOrder and deleteOrder change an order or a
\* product only for a token that verifies and names a stored account of type
\* admin; every other token is answered with 401 or 403 and changes nothing.
IsStoredAdmin(tok) ==
    /\ tok \notin {NoToken, BadToken}
    /\ \E u \in users : u.userId = tok /\ u.type = "admin"

AdminOps == {"updateOrderStatus", "acceptOrder", "deleteOrder"}

C13_AdminOnly ==
    [][last'.op \in AdminOps =>
          IF IsStoredAdmin(last'.tok)
          THEN last'.code \notin {401, 403}
          ELSE /\ last'.code \in {401, 403}
               /\ orders' = orders /\ products' = products]_vars

\* a customer's token was turned away from an order that an admin had moved
C13_Witness ==
    /\ last.op = "deleteOrder" /\ last.tok = Customer1.userId /\ last.code = 403
    /\ 1 \in DOMAIN orders /\ orders[1].status = "shipped"
    /\ products["P1"].totalOrdered > 0

\* C14: a createReview request that does not find a delivered order of its
\* caller with the given orderId and the given product is rejected at that
\* lookup and stores nothing, and a review is stored only by a request that
\* passed the lookup, for the caller, product and order of that request.
RSteps(s, pc) == rreq[s].pc = pc /\ rreq'[s] # rreq[s]

Eligible(uid, body) ==
    \E i \in DOMAIN orders :
        /\ orders[i].orderId = body.orderId /\ orders[i].userId = uid
        /\ orders[i].status = "delivered"
        /\ SumItems(orders[i].orderedItems, body.productId) > 0

C15_OneActiveReview ==
    \A i, j \in DOMAIN reviews :
        (/\ reviews[i].status = "active" /\ reviews[j].status = "active"
         /\ reviews[i].userId = reviews[j].userId
         /\ reviews[i].productId = reviews[j].productId
         /\ reviews[i].orderId = reviews[j].orderId) => i = j

\* C16: every review holds at most one vote per voter, and its helpfulCount
\* is the number of its helpful votes minus the number of its other votes; a
\* first vote moves the count by one, a flipped vote by two, a repeated vote
\* by nothing.
RECURSIVE CountVotes(_, _)
CountVotes(votes, isHelpful) ==
    IF votes = <<>> THEN 0
    ELSE (IF Head(votes).isHelpful = isHelpful THEN 1 ELSE 0)
             + CountVotes(Tail(votes), isHelpful)

VoteOf(review, uid) ==
    IF FindIndex(review.helpfulVotes, uid) = 0 THEN "none"
    ELSE review.helpfulVotes[FindIndex(review.helpfulVotes, uid)].isHelpful

C16_VoteCount ==
    /\ [](\A i \in DOMAIN reviews :
             LET votes == reviews[i].helpfulVotes
             IN  /\ \A j, k \in 1..Len(votes) : votes[j].userId = votes[k].userId => j = k
                 /\ reviews[i].helpfulCount = CountVotes(votes, "true") - CountVotes(votes, "false"))
    /\ [][(last'.op = "voteReviewHelpful" /\ last'.code = 200) =>
             LET before == VoteOf(reviews[last'.id], last'.tok)
                 change == reviews'[last'.id].helpfulCount - reviews[last'.id].helpfulCount
             IN  /\ VoteOf(reviews'[last'.id], last'.tok) = last'.arg
                 /\ before = "none" => change = (IF last'.arg = "true" THEN 1 ELSE -1)
                 /\ (before # "none" /\ before # last'.arg) =>
                        change = (IF last'.arg = "true" THEN 2 ELSE -2)
                 /\ before = last'.arg => change = 0]_vars

\* a voter has flipped a vote while another voter's vote stands
C16_Witness ==
    /\ last.op = "voteReviewHelpful" /\ last.code = 200 /\ last.arg = "false"
    /\ Len(reviews[last.id].helpfulVotes) = 2
    /\ reviews[last.id].helpfulVotes[1] = [userId |-> last.tok, isHelpful |-> "false"]
    /\ reviews[last.id].helpfulVotes[2].isHelpful = "true"
    /\ reviews[last.id].helpfulCount = 0

\* C17: a loginOrRegister request whose name has an account is answered for
\* the account the lookup returned: with 200 and a token of that account if
\* the phone number matches its stored hash, with 401 and no token if not;
\* in both cases the accounts stay as they are.
C17_LoginNeedsPhone ==
    [][\A s \in Slots :
          (/\ Steps(s, "loginOrRegister", "find")
           /\ \E u \in users : u.firstName = ureq[s].body.firstName) =>
              /\ ureq'[s] = Idle /\ last'.op = "loginOrRegister"
              /\ users' = users
              /\ \E u \in users :
                    /\ u._id = last'.id /\ u.firstName = ureq[s].body.firstName
                    /\ IF u.password = Hash(ureq[s].body.phonenumber)
                       THEN last'.code = 200 /\ last'.arg = u.userId
                       ELSE last'.code = 401 /\ last'.arg = NoToken]_vars

\* the name of an account registered in this run was used with the phone
\* number of another account
C17_Witness ==
    /\ last.op = "loginOrRegister" /\ last.code = 401 /\ last.arg = NoToken
    /\ last.id \notin {Customer1._id, Admin1._id}
    /\ \E u \in users : u._id = last.id /\ u.firstName = "sam"

\* C18 as claimed: a request passes token verification only with a token
\* that verifies, has not expired and names a stored account, and then runs
\* for the userId of the token; and on each protected route the answers to
\* a missing, a malformed and an expired token differ from one another.
C18_VerificationGate ==
    /\ [][(last'.op = "getMyOrders" /\ last'.code = 200) =>
             /\ last'.tok \notin {NoToken, BadToken}
             /\ ~TokenExpired(last'.tok)
             /\ FindUser(Decoded(last'.tok)) # {}
             /\ last'.out = Decoded(last'.tok)]_vars
    /\ [](\A route \in MyOrdersRoutes :
             /\ RouteAuth(route, NoToken) # RouteAuth(route, BadToken)
             /\ RouteAuth(route, NoToken).code # 200
             /\ RouteAuth(route, BadToken).code # 200
             /\ \A tok \in held :
                    TokenExpired(tok) =>
                        /\ RouteAuth(route, tok).code # 200
                        /\ RouteAuth(route, tok) # RouteAuth(route, NoToken)
                        /\ RouteAuth(route, tok) # RouteAuth(route, BadToken))

\* C19 as claimed: every token that a login answers with carries an expiry,
\* and a token is never accepted once the clock has reached its expiry.
C19_TokensExpire ==
    /\ []((last.op \in LoginOps /\ last.code \in {200, 201}) => HasExpiry(last.arg))
    /\ [][(last'.op = "getMyOrders" /\ TokenExpired(last'.tok)) => last'.code # 200]_vars

\* C20 as claimed: the type of an account never changes; an account made by
\* createUser or loginOrRegister has type customer; an account of type admin
\* is made only by createAdminUser called with the token of a stored admin.
C20_RolesFixed ==
    [][/\ \A u \in users : \A v \in users' : v._id = u._id => v.type = u.type
       /\ \A v \in users' :
             (\A u \in users : u._id # v._id) =>
                 /\ last'.op \in {"createUser", "loginOrRegister"} => v.type = "customer"
                 /\ v.type = "admin" =>
                        (last'.op = "createAdminUser" /\ IsStoredAdmin(last'.tok))]_vars

\* C21: a deleteAdminUser request that names its caller's own account is
\* never admitted to the store: it is answered at once with an error (400
\* when the caller is a stored admin) and changes no account;
\* an account is removed only by the deleteOne of a request that adminAuth
\* admitted as an admin, and the account removed is one of type admin, the
\* one the request names, and not the caller's own.
DSteps(s, pc) == dreq[s].pc = pc /\ dreq'[s] # dreq[s]

C22_QuoteIsReadOnly ==
    [][(last'.op = "getQuote" /\ last' # last) =>
          /\ orders' = orders /\ products' = products /\ users' = users
          /\ reviews' = reviews /\ nextOid' = nextOid]_vars

\* a cart with a product that is not in the catalog was quoted while an
\* order is open and after a price was changed
C22_Witness ==
    /\ last.op = "getQuote" /\ last.code = 200
    /\ last.arg = <<QuoteItem("P2", 1), QuoteItem("P3", 1)>> /\ last.out = <<"not found">>
    /\ orders # <<>> /\ products["P1"].quantity = 8 /\ products["P1"].lastPrice = 7

\* C23 as claimed: once the interleaved admin requests on an order have all
\* been answered, every product's totalOrdered is again its initial value
\* plus the quantities of the orders that exist and are not delivered, so
\* the quantities of an order were subtracted at most once.
C23_SubtractedOnce ==
    (\A s \in OrderSlots : oreq[s].pc = "idle") =>
        \A pid \in DOMAIN products :
            products[pid].totalOrdered =
                InitProducts[pid].totalOrdered + Outstanding(DOMAIN orders, pid)

\* C24 as claimed: from the fifth failed adminLogin for a phone number and
\* for the 15 minutes after it, every adminLogin for that phone number is
\* answered as locked (429), whatever the password; a login with the right
\* password is accepted from then on.
C24_LockedForFifteenMinutes ==
    [][(last'.op = "adminLogin" /\ last'.arg \in DOMAIN fifthFailure /\ minutes' = minutes) =>
          IF minutes < fifthFailure[last'.arg] + LOCKOUT_DURATION
          THEN last'.code = 429
          ELSE \A u \in users :
                   (u.phonenumber = last'.arg /\ u.type = "admin") => last'.code # 429]_vars

\* C25 as claimed: a request is answered 429 by a limiter exactly when that
\* limiter has already admitted its maxRequests requests of the client in the
\* current window, counting only the requests that this limiter admitted.
C25_LimitersAreSeparate ==
    [][(last'.op = "rateLimiter" /\ ms' = ms
           /\ (last' # last \/ requestCounts' # requestCounts)) =>
          LET ip == "10.0.0.1"
              general == checkRateLimit(admitted, <<"general", ip>>,
                                        GeneralMaxRequests, WindowMs, ms)
              auth == checkRateLimit(general.map, <<"auth", ip>>,
                                     AuthMaxRequests, WindowMs, ms)
          IN  /\ (last'.code = 429 /\ last'.out = "general") <=> ~general.allowed
              /\ (last'.code = 429 /\ last'.out = "auth") <=>
                     (general.allowed /\ last'.arg \in AuthRoutes /\ ~auth.allowed)]_vars

\* C26: authenticateToken of secureAuth.js never lets a token pass that
\* logout was called with: while the token is on the blacklist the answer is
\* TOKEN_REVOKED, and a token that the timer has taken off the blacklist has
\* expired.
C26_LoggedOutStaysOut ==
    /\ \A token \in loggedOut :
          /\ secureAuth_authenticateToken(token, halfHours).code # 200
          /\ token \in tokenBlacklist =>
                 secureAuth_authenticateToken(token, halfHours).message = "TOKEN_REVOKED"
          /\ token \notin tokenBlacklist => halfHours >= token.exp
    /\ (last.op = "secureAuth" /\ last.tok \in loggedOut) => last.code # 200

\* a token was logged out half an hour after it was issued; its timer has
\* run, and a request with it was answered as expired
C26_Witness ==
    /\ last.op = "secureAuth" /\ last.out = "TOKEN_EXPIRED"
    /\ last.tok \in loggedOut /\ last.tok \notin tokenBlacklist
    /\ last.tok.exp = ACCESS_TOKEN_EXPIRY
    /\ \A timer \in timers : timer.token # last.tok
    /\ halfHours = 3

\* C27 as claimed: a loginUser request with the first name and the phone
\* number of a registered customer account is answered with 200 and a token
\* of that account, also when another account has the same first name.
C27_OwnCredentialsLogIn ==
    [][(last'.op = "loginUser" /\ last' # last) =>
          \A u \in users :
              (u.type = "customer" /\ last'.out = <<u.firstName, u.phonenumber>>) =>
                  (last'.code = 200 /\ last'.arg = u.userId)]_vars

\* C28 as claimed: no product ever has a negative quantity, and createOrder
\* never makes the quantity of a product greater than it was.
C28_QuantityNeverNegative ==
    /\ [](\A pid \in DOMAIN products : products[pid].quantity >= 0)
    /\ [][last'.op = "createOrder" =>
             \A pid \in DOMAIN products :
                 products'[pid].quantity <= products[pid].quantity]_vars

\* C29 as claimed: the admin accounts never all disappear: in every state
\* at least one account of type admin is stored.
C29_AnAdminRemains == \E u \in users : u.type = "admin"

\* C30 as claimed: a createAdminUser request of a stored admin with all
\* fields and a phone number that no account has is answered with 201 and
\* stores an account with a userId that no account had; and a registration
\* that reaches its save with a phone number that no account has is answered
\* with 201 and stores an account with a userId that no account had.
StoresNewUserId ==
    /\ last'.code = 201
    /\ \E v \in users' \ users :
           /\ users' = users \cup {v}
           /\ \A u \in users : u.userId # v.userId

C30_UserIdsStayUnique ==
    /\ [][(/\ last'.op = "createAdminUser" /\ started' # started
           /\ IsStoredAdmin(last'.tok)
           /\ last'.out.firstName # "" /\ last'.out.homeaddress # ""
           /\ last'.out.password # ""
           /\ ~PhoneRegistered(last'.out.phonenumber)) => StoresNewUserId]_vars
    /\ [][\A s \in Slots :
             (/\ Steps(s, "createUser", "save")
              /\ SchemaValid(ureq[s].body)
              /\ ~PhoneRegistered(ureq[s].body.phonenumber)) => StoresNewUserId]_vars
    /\ [](\A u, v \in users : u.userId = v.userId => u = v)

====
